---- MODULE Spec2Model ----
(***************************************************************************)
(* Model of the slack-intro-bot batch pipeline (daily_intros.main) and of  *)
(* the bounded profile resolver (user_profile_search).                     *)
(*                                                                         *)
(* Texts are sequences of tokens (a token is a word, a keyword phrase or a *)
(* URL); the classifier, the sanitizer and the extractors work token by    *)
(* token.  Wall-clock time advances only while a remote call is in flight  *)
(* (the suspension points of the program), so SIGALRM is delivered only    *)
(* there.                                                                  *)
(***************************************************************************)
EXTENDS Integers, Sequences, FiniteSets, TLC

VARIABLES
    \* ---- daily_intros.main ----
    pc,                            \* position of main
    env_template,                  \* WELCOME_MESSAGE_TEMPLATE of the environment
    config_cache,                  \* daily_intros._config_cache
    fetch_issued,                  \* the batch message search was requested
    recent_messages,               \* result of get_messages_for_timestamp_range
    error_message,
    idx,                           \* loop index of the running phase
    intro_data_list,
    intro_data_by_username,        \* username -> position in intro_data_list (aliasing)
    users_needing_profile_search,
    resolver_calls,                \* history: resolver invocations of the run
    welcome_messages,
    report,                        \* what save_daily_intro_report wrote
    \* ---- user_profile_search (one invocation) ----
    rpc,                           \* position of the resolver
    r_user, r_username,            \* its arguments
    alarm,                         \* seconds until SIGALRM, 0 = no alarm armed
    elapsed,                       \* wall-clock seconds since the resolver was entered
    delay,                         \* seconds the remote call in flight needs, or Hang
    rlog,                          \* remote calls issued by this invocation, in order
    primary,                       \* what the profile-by-id step yielded
    search_outcome,                \* how search_user_profile_for_linkedin ended
    r_result,                      \* how safe_profile_search_for_daily_intros ended
    \* ---- a function applied on its own ----
    arg,                           \* the argument of the call
    ret,                           \* what the call gave, Pending before it
    \* ---- rate_limiter.RateLimiter (one limiter and its callers) ----
    call_times,                    \* RateLimiter.call_times, oldest first
    clock,                         \* time.time(), in tenths of a second
    threads,                       \* caller -> its position in wait_if_needed
    admitted,                      \* history: the times appended to call_times
    pauses                         \* history: pauses between the callers' steps

main_vars == <<pc, env_template, config_cache, fetch_issued, recent_messages,
               error_message, idx, intro_data_list, intro_data_by_username,
               users_needing_profile_search, resolver_calls, welcome_messages,
               report>>

resolver_vars == <<rpc, r_user, r_username, alarm, elapsed, delay, rlog,
                   primary, search_outcome, r_result>>

fn_vars == <<arg, ret>>

limiter_vars == <<call_times, clock, threads, admitted, pauses>>

vars == <<main_vars, resolver_vars, fn_vars, limiter_vars>>

----------------------------------------------------------------------------
(* Bounds *)

MaxMsgs == 2          \* messages returned by one batch fetch
SlowCall == 25        \* seconds a slow (but returning) remote call takes

----------------------------------------------------------------------------
(* Values *)

None == "None"
Hang == 0 - 1         \* the remote call never returns by itself

Durations == {0, SlowCall, Hang}

\* timeout_seconds passed by safe_profile_search_for_daily_intros
SAFE_TIMEOUT == 60
\* timeout_seconds passed to search_user_profile_for_linkedin by the fallback
PROFILE_TIMEOUT == 30

_STANDARD_PROFILE_FIELDS ==
    <<"status_text", "title", "phone", "skype", "real_name_normalized",
      "display_name", "display_name_normalized", "real_name", "email">>

SeqRange(s) == {s[i] : i \in 1..Len(s)}

----------------------------------------------------------------------------
(* Token level text functions *)

\* str.lower() on a token
Lower(tok) ==
    CASE tok = "Hi everyone" -> "hi everyone"
      [] tok = "https://www.linkedin.com/in/Ann" -> "https://www.linkedin.com/in/ann"
      [] OTHER -> tok

\* the patterns of user_profile_search._LINKEDIN_PATTERNS (by position) that
\* match inside a token, and the text each one matches
profile_pattern_match(p, tok) ==
    CASE p = 1 /\ tok = "<https://www.linkedin.com/in/Ann>" -> tok
      [] p = 3 /\ tok = "https://www.linkedin.com/in/Ann" -> tok
      [] p = 3 /\ tok = "<https://www.linkedin.com/in/Ann>" -> "https://www.linkedin.com/in/Ann"
      [] p = 5 /\ tok = "https://www.linkedin.com/in/Ann" -> "linkedin.com/in/Ann"
      [] p = 5 /\ tok = "<https://www.linkedin.com/in/Ann>" -> "linkedin.com/in/Ann"
      [] p = 5 /\ tok = "linkedin.com/in/bobacme" -> tok
      [] OTHER -> None

\* url[1:-1] for a wrapped match
strip_wrapping(url) ==
    CASE url = "<https://www.linkedin.com/in/Ann>" -> "https://www.linkedin.com/in/Ann"
      [] OTHER -> url

\* 'https://' + url when url does not start with 'http'
add_protocol(url) ==
    CASE url = "linkedin.com/in/bobacme" -> "https://linkedin.com/in/bobacme"
      [] url = "linkedin.com/in/Ann" -> "https://linkedin.com/in/Ann"
      [] url = "linkedin.com/in/ann" -> "https://linkedin.com/in/ann"
      [] OTHER -> url

\* pattern.search(text): the leftmost match of pattern p in the text
RECURSIVE profile_pattern_search(_, _, _)
profile_pattern_search(p, text, i) ==
    IF i > Len(text) THEN None
    ELSE IF profile_pattern_match(p, text[i]) # None
         THEN profile_pattern_match(p, text[i])
         ELSE profile_pattern_search(p, text, i + 1)

RECURSIVE profile_extract_from(_, _)
profile_extract_from(p, text) ==
    IF p > 6 THEN None
    ELSE LET m == profile_pattern_search(p, text, 1)
         IN IF m # None
            THEN Lower(add_protocol(strip_wrapping(m)))
            ELSE profile_extract_from(p + 1, text)

\* user_profile_search.extract_linkedin_link
profile_extract_linkedin_link(text) ==
    IF text = <<>> THEN None ELSE profile_extract_from(1, text)

----------------------------------------------------------------------------
(* Remote responses *)

EmptyStd == [f \in SeqRange(_STANDARD_PROFILE_FIELDS) |-> <<>>]

NoLinkProfile == [std |-> [EmptyStd EXCEPT !["title"] = <<"PM">>], custom |-> <<>>]

TitleLinkProfile ==
    [std |-> [EmptyStd EXCEPT !["title"] = <<"PM", "linkedin.com/in/bobacme">>],
     custom |-> <<>>]

CustomLinkProfile ==
    [std |-> [EmptyStd EXCEPT !["real_name"] = <<"Ann">>],
     custom |-> <<<<"https://www.linkedin.com/in/Ann">>>>]

ProfileSamples == {NoLinkProfile, TitleLinkProfile, CustomLinkProfile}

\* what a slack_find_user_by_id / slack_find_user_by_username function can do
\* once it stops waiting: be unavailable, raise, answer with an isError
\* mapping, with a falsy value, with a mapping that has no 'profile', with a
\* 'profile' that is not a mapping, or with a profile
ProfileResponses ==
    {[tag |-> t, profile |-> NoLinkProfile] :
        t \in {"unavailable", "raise", "isError", "empty", "noprofile", "badprofile"}}
    \cup {[tag |-> "profile", profile |-> p] : p \in ProfileSamples}

\* what slack_find_message answers to the resolver's from:<id> query:
\* real_name is results[0]['user']['real_name']
RecentResponses ==
    {[tag |-> t, real_name |-> <<>>] :
        t \in {"raise", "isError", "noresults", "baduser"}}
    \cup {[tag |-> "results", real_name |-> n] :
            n \in {<<"Ann">>, <<"Ann", "https://www.linkedin.com/in/Ann">>}}

----------------------------------------------------------------------------
(* user_profile_search: local code between the remote calls *)

Return(v) == [how |-> "return", val |-> v]
Raise(e) == [how |-> "raise", val |-> e]
Fallthrough == [how |-> "next", val |-> None]

\* MCPAdapter.call_function: None when the function is missing, raises
\* (TimeoutError of the alarm handler included) or answers isError
call_function(resp, timed_out) ==
    IF timed_out \/ resp.tag \in {"unavailable", "raise", "isError"}
    THEN [resp EXCEPT !.tag = "None"]
    ELSE resp

RECURSIVE first_link(_, _)
first_link(texts, i) ==
    IF i > Len(texts) THEN None
    ELSE IF texts[i] # <<>> /\ profile_extract_linkedin_link(texts[i]) # None
         THEN profile_extract_linkedin_link(texts[i])
         ELSE first_link(texts, i + 1)

\* the standard fields' values in the declared order
standard_values(profile) ==
    [i \in 1..Len(_STANDARD_PROFILE_FIELDS) |-> profile.std[_STANDARD_PROFILE_FIELDS[i]]]

scan_profile_custom_first(profile) ==
    first_link(SelectSeq(profile.custom, LAMBDA v : v # <<>>)
                 \o SelectSeq(standard_values(profile), LAMBDA v : v # <<>>), 1)

\* scan of search_user_profile_for_linkedin: standard fields, then custom fields
scan_profile(profile) ==
    first_link(SelectSeq(standard_values(profile), LAMBDA v : v # <<>>)
                 \o SelectSeq(profile.custom, LAMBDA v : v # <<>>), 1)

\* scan of the by-username step: standard fields only
scan_standard(profile) == first_link(standard_values(profile), 1)

\* search_user_profile_for_linkedin from the answer of the by-id call up to
\* the recent-message call
primary_step(result) ==
    IF result.tag \in {"None", "empty"} THEN Return(None)
    ELSE IF result.tag = "noprofile" THEN Return(None)
    ELSE IF result.tag = "badprofile" THEN Raise("AttributeError")
    ELSE IF scan_profile(result.profile) # None
         THEN Return(scan_profile(result.profile))
         ELSE Fallthrough

\* re.search(r'https?://[^\s]+linkedin[^\s]*', real_name)
heuristic_match(tok) ==
    IF tok = "https://www.linkedin.com/in/Ann" THEN tok ELSE None

RECURSIVE heuristic_search(_, _)
heuristic_search(text, i) ==
    IF i > Len(text) THEN None
    ELSE IF heuristic_match(text[i]) # None THEN heuristic_match(text[i])
         ELSE heuristic_search(text, i + 1)

\* the fallback block on the answer of the recent-message call
recent_try(result) ==
    IF result.tag \in {"None", "noresults"} THEN Fallthrough
    ELSE IF result.tag = "baduser" THEN Raise("AttributeError")
    ELSE IF heuristic_search(result.real_name, 1) # None
         THEN Return(heuristic_search(result.real_name, 1))
         ELSE Fallthrough

\* 'except Exception as fallback_error' of the fallback block, then the
\* function's final 'return None'
recent_step(result) ==
    IF recent_try(result).how = "return" THEN recent_try(result) ELSE Return(None)

\* a handler that lets the exception through
search_except_missing(o) == o

\* 'except TimeoutError' / 'except Exception' of search_user_profile_for_linkedin
search_except(o) ==
    IF o.how = "raise" THEN Return(None) ELSE o

\* the by-username block of the fallback function
username_try(result) ==
    IF result.tag \in {"None", "empty", "noprofile"} THEN Fallthrough
    ELSE IF result.tag = "badprofile" THEN Raise("AttributeError")
    ELSE IF scan_standard(result.profile) # None
         THEN Return(scan_standard(result.profile))
         ELSE Fallthrough

\* 'except Exception as e' of the by-username block, then the fallback
\* function's final 'return None'
username_step(result) ==
    IF username_try(result).how = "return" THEN username_try(result) ELSE Return(None)

\* 'except TimeoutError' / 'except Exception' of the fallback function
fallback_except(o) ==
    IF o.how = "raise" THEN Return(None) ELSE o

\* 'except Exception' of safe_profile_search_for_daily_intros
safe_except(o) ==
    IF o.how = "raise" THEN Return(None) ELSE o

try_username_always(user_id, username) == TRUE

\* 'if username and username != user_id'
try_username(user_id, username) == username # "" /\ username # user_id

\* signal.alarm(seconds): replaces whatever alarm was armed before
signal_alarm(current, seconds) == seconds

----------------------------------------------------------------------------
(* user_profile_search: the resolver as a state machine.  Each action is   *)
(* the return of the remote call in flight followed by all the local code  *)
(* up to the next remote call or to the return of the outermost function.  *)

Pending == [how |-> "pending", val |-> None]

\* the alarm goes off before the call in flight returns
Interrupted == alarm > 0 /\ (delay = Hang \/ delay >= alarm)

\* a call that hangs returns only when an alarm interrupts it
CanComplete == delay # Hang \/ alarm > 0

Waited == IF Interrupted THEN alarm ELSE delay

AlarmAfterWait == IF Interrupted \/ alarm = 0 THEN 0 ELSE alarm - delay

IssueCall(kind, fn, a) ==
    /\ rpc' = kind
    /\ alarm' = a
    /\ delay' \in Durations
    /\ rlog' = Append(rlog, fn)
    /\ r_result' = r_result

Finish_no_cancel(o) ==
    /\ rpc' = "returned"
    /\ alarm' = alarm
    /\ delay' = 0
    /\ rlog' = rlog
    /\ r_result' = o

\* the 'finally' blocks cancel the alarm; the value goes to the caller
Finish(o) ==
    /\ rpc' = "returned"
    /\ alarm' = signal_alarm(alarm, 0)
    /\ delay' = 0
    /\ rlog' = rlog
    /\ r_result' = o

\* search_user_profile_for_linkedin_with_fallback once the inner search has
\* ended with outcome so (its 'finally' has already run signal.alarm(0))
AfterSearch(so) ==
    /\ search_outcome' = so
    /\ IF so.how = "raise" THEN Finish(safe_except(fallback_except(so)))
       ELSE IF so.val # None THEN Finish(safe_except(fallback_except(so)))
       ELSE IF try_username(r_user, r_username)
            THEN IssueCall("by_username", "slack_find_user_by_username",
                           signal_alarm(AlarmAfterWait, 0))
            ELSE Finish(safe_except(fallback_except(Return(None))))

\* what the by-id step yielded, for the record
primary_kind(result, o) ==
    IF o.how = "raise" THEN "malformed"
    ELSE IF result.tag = "None" THEN "error"
    ELSE IF o.how = "next" THEN "nolink"
    ELSE IF o.val # None THEN "link"
    ELSE "nothing"

\* safe_profile_search_for_daily_intros(user_id, username) up to the first
\* remote call: the fallback function arms the alarm, the inner search
\* re-arms it and requests the profile by id
ResolverEnter(user_id, username) ==
    /\ rpc = "idle"
    /\ rpc' = "by_id"
    /\ r_user' = user_id
    /\ r_username' = username
    /\ alarm' = signal_alarm(signal_alarm(alarm, SAFE_TIMEOUT), PROFILE_TIMEOUT)
    /\ elapsed' = 0
    /\ delay' \in Durations
    /\ rlog' = <<"slack_find_user_by_id">>
    /\ primary' = "pending"
    /\ search_outcome' = Pending
    /\ r_result' = Pending

\* slack_find_user_by_id returns (or is interrupted)
ByIdReturns ==
    /\ rpc = "by_id"
    /\ CanComplete
    /\ \E resp \in ProfileResponses :
         LET result == call_function(resp, Interrupted)
             o == primary_step(result)
         IN /\ primary' = primary_kind(result, o)
            /\ elapsed' = elapsed + Waited
            /\ IF o.how = "next"
               THEN /\ IssueCall("recent", "slack_find_message", AlarmAfterWait)
                    /\ search_outcome' = search_outcome
               ELSE AfterSearch(search_except(o))
    /\ UNCHANGED <<r_user, r_username, main_vars, fn_vars, limiter_vars>>

\* slack_find_message (from:<id>) returns (or is interrupted)
RecentReturns ==
    /\ rpc = "recent"
    /\ CanComplete
    /\ \E resp \in RecentResponses :
         LET result == call_function(resp, Interrupted)
         IN /\ elapsed' = elapsed + Waited
            /\ AfterSearch(search_except(recent_step(result)))
    /\ UNCHANGED <<r_user, r_username, primary, main_vars, fn_vars, limiter_vars>>

\* slack_find_user_by_username returns (or is interrupted)
ByUsernameReturns ==
    /\ rpc = "by_username"
    /\ CanComplete
    /\ \E resp \in ProfileResponses :
         LET result == call_function(resp, Interrupted)
         IN /\ elapsed' = elapsed + Waited
            /\ Finish(safe_except(fallback_except(username_step(result))))
    /\ UNCHANGED <<r_user, r_username, primary, search_outcome, main_vars,
                   fn_vars, limiter_vars>>

----------------------------------------------------------------------------
(* The resolver on its own, for any author id and username *)

UserIdSamples == {"U1", "U2"}
UsernameSamples == {"", "ann", "U1"}

NoReport ==
    [written |-> FALSE, section |-> "none", entries |-> <<>>, linkedin |-> <<>>]

MainIdle ==
    /\ env_template = <<"Hi ", "{first_name}", "!">>
    /\ config_cache = None
    /\ fetch_issued = FALSE
    /\ recent_messages = <<>>
    /\ error_message = None
    /\ idx = 1
    /\ intro_data_list = <<>>
    /\ intro_data_by_username = <<>>
    /\ users_needing_profile_search = <<>>
    /\ resolver_calls = <<>>
    /\ welcome_messages = <<>>
    /\ report = NoReport

ResolverIdle ==
    /\ rpc = "idle"
    /\ r_user = ""
    /\ r_username = ""
    /\ alarm = 0
    /\ elapsed = 0
    /\ delay = 0
    /\ rlog = <<>>
    /\ primary = "pending"
    /\ search_outcome = Pending
    /\ r_result = Pending

FnIdle ==
    /\ arg = None
    /\ ret = Pending

\* no limiter in use
LimiterIdle ==
    /\ call_times = <<>>
    /\ clock = 0
    /\ threads = <<>>
    /\ admitted = <<>>
    /\ pauses = 0

InitResolver ==
    /\ pc = "resolver"
    /\ MainIdle
    /\ ResolverIdle
    /\ LimiterIdle
    /\ FnIdle

SafeProfileSearch ==
    /\ pc = "resolver"
    /\ \E u \in UserIdSamples, n \in UsernameSamples : ResolverEnter(u, n)
    /\ UNCHANGED <<main_vars, fn_vars, limiter_vars>>

NextResolver ==
    \/ SafeProfileSearch
    \/ ByIdReturns
    \/ RecentReturns
    \/ ByUsernameReturns

SpecResolver == InitResolver /\ [][NextResolver]_vars

\* a remote call that can return does return
FairSpecResolver == SpecResolver /\ WF_vars(NextResolver)

----------------------------------------------------------------------------
(* The profile field scan on its own, for any small profile *)

MaxFilled == 2        \* standard fields of a profile that hold a value
MaxCustom == 2        \* custom fields of a profile

\* a field's value: empty, without a link, or with one of two links
FieldValues ==
    {<<>>, <<"PM">>, <<"PM", "linkedin.com/in/bobacme">>,
     <<"https://www.linkedin.com/in/Ann">>}

StdSamples ==
    {std \in [SeqRange(_STANDARD_PROFILE_FIELDS) -> FieldValues] :
        Cardinality({f \in DOMAIN std : std[f] # <<>>}) <= MaxFilled}

CustomSamples == UNION {[1..n -> FieldValues] : n \in 0..MaxCustom}

ScanProfiles == {[std |-> s, custom |-> c] : s \in StdSamples, c \in CustomSamples}

InitScan ==
    /\ pc = "scan"
    /\ MainIdle
    /\ ResolverIdle
    /\ LimiterIdle
    /\ arg \in ScanProfiles
    /\ ret = Pending

\* lines 117-153 of search_user_profile_for_linkedin on a profile
ScanProfile ==
    /\ pc = "scan"
    /\ ret = Pending
    /\ ret' = Return(scan_profile(arg))
    /\ UNCHANGED <<arg, main_vars, resolver_vars, limiter_vars>>

NextScan == ScanProfile

SpecScan == InitScan /\ [][NextScan]_vars

----------------------------------------------------------------------------
(* daily_intros: token level text functions *)

_INTRO_KEYWORDS ==
    {"hi everyone", "hello everyone", "hey everyone", "hey all", "hi all",
     "i'm ", "my name is", "introduction", "nice to meet",
     "pleased to meet", "excited to be here", "happy to be here",
     "i am", "i have been", "based", "working", "fun fact"}

\* is_intro_message: a keyword occurs in the lower-cased text
is_intro_message(text) ==
    \E i \in 1..Len(text) : Lower(text[i]) \in _INTRO_KEYWORDS

\* InputValidator.sanitize_text on one token: the blocked characters go
sanitize_token(tok) ==
    CASE tok = "<https://www.linkedin.com/in/Ann>" -> "https://www.linkedin.com/in/Ann"
      [] tok = "<>" -> ""
      [] OTHER -> tok

\* SecurityConfig.max_input_length
MAX_INPUT_LENGTH == 10000

\* a passage of 400 sentences without a keyword or a link
LongPassage == "This is a very long text. (x400)"

\* len() of a token and the blank after it
token_len(tok) == IF tok = LongPassage THEN 10400 ELSE Len(tok) + 1

\* text[:max_length], from token i on with room characters left; of a
\* token that does not fit the passage stays a passage, of another token no
\* keyword and no link is left
RECURSIVE truncate(_, _, _)
truncate(text, i, room) ==
    IF i > Len(text) \/ room <= 0 THEN <<>>
    ELSE IF token_len(text[i]) <= room
         THEN <<text[i]>> \o truncate(text, i + 1, room - token_len(text[i]))
         ELSE <<IF text[i] = LongPassage THEN LongPassage ELSE "">>

\* InputValidator.sanitize_text: the text is cut to max_input_length, then
\* the blocked characters go; tokens that are emptied disappear
sanitize_text(text) ==
    LET cut == truncate(text, 1, MAX_INPUT_LENGTH)
    IN SelectSeq([i \in 1..Len(cut) |-> sanitize_token(cut[i])], LAMBDA t : t # "")

\* the patterns of daily_intros._LINKEDIN_PATTERNS (by position) that match
\* inside a token, and the text each one matches
pattern_match(p, tok) ==
    CASE p = 1 /\ tok = "<https://www.linkedin.com/in/Ann>" -> tok
      [] p = 3 /\ tok = "https://www.linkedin.com/in/Ann" -> tok
      [] p = 3 /\ tok = "<https://www.linkedin.com/in/Ann>" -> "https://www.linkedin.com/in/Ann"
      [] p = 5 /\ tok = "https://www.linkedin.com/in/Ann" -> "www.linkedin.com/in/Ann"
      [] p = 5 /\ tok = "<https://www.linkedin.com/in/Ann>" -> "www.linkedin.com/in/Ann"
      [] p = 5 /\ tok = "linkedin.com/in/bobacme" -> tok
      [] p = 6 /\ tok = "https://www.linkedin.com/in/Ann" -> tok
      [] p = 6 /\ tok = "<https://www.linkedin.com/in/Ann>" -> "https://www.linkedin.com/in/Ann"
      [] OTHER -> None

RECURSIVE pattern_search(_, _, _)
pattern_search(p, text, i) ==
    IF i > Len(text) THEN None
    ELSE IF pattern_match(p, text[i]) # None THEN pattern_match(p, text[i])
         ELSE pattern_search(p, text, i + 1)

RECURSIVE extract_from(_, _)
extract_from(p, text) ==
    IF p > 6 THEN None
    ELSE LET m == pattern_search(p, text, 1)
         IN IF m # None
            THEN add_protocol(strip_wrapping(m))
            ELSE extract_from(p + 1, text)

\* daily_intros.extract_linkedin_link
extract_linkedin_link(text) == extract_from(1, text)

\* extract_first_name: real_name is the sequence of its words
extract_first_name(real_name, username) ==
    IF real_name # <<>> THEN real_name[1]
    ELSE IF username # "" THEN username ELSE "there"

\* SecurityManager.validate_and_sanitize_input on a username: a username
\* that fails validate_username goes through sanitize_text
sanitize_username(username) ==
    IF username = "" THEN "" ELSE sanitize_token(username)

\* parse_intro_message for a message that is_intro_message accepts
parse_intro_message(message) ==
    [first_name |-> extract_first_name(message.user.real_name,
                                       sanitize_username(message.user.name)),
     real_name |-> message.user.real_name,
     username |-> sanitize_username(message.user.name),
     linkedin_link |-> extract_linkedin_link(sanitize_text(message.text)),
     message_text |-> sanitize_text(message.text),
     user_id |-> sanitize_username(message.user.id),
     permalink |-> message.permalink,
     profile_checked |-> FALSE]

----------------------------------------------------------------------------
(* daily_intros: the batch *)

AuthorSamples ==
    {[id |-> "U1", real_name |-> <<"ann", "Lee">>, name |-> "ann"],
     [id |-> "U2", real_name |-> <<"Bob">>, name |-> "bob"],
     [id |-> "U3", real_name |-> <<>>, name |-> "ann"]}

TextSamples ==
    {<<"weather">>,
     <<"Hi everyone", "weather">>,
     <<"Hi everyone", "<https://www.linkedin.com/in/Ann>">>}

\* the batches the message search can return; permalink tells the messages
\* of a batch apart
Batches ==
    UNION {[1..n -> AuthorSamples \X TextSamples] : n \in 0..MaxMsgs}

BatchMessages(b) ==
    [i \in 1..Len(b) |-> [user |-> b[i][1], text |-> b[i][2], permalink |-> i]]

\* what slack_find_message can do for the batch query
FetchResponses ==
    {[tag |-> t, results |-> <<>>] :
        t \in {"unavailable", "raise", "isError", "noresults", "malformed"}}
    \cup {[tag |-> "results", results |-> BatchMessages(b)] : b \in Batches}

\* get_messages_for_timestamp_range on the adapter's answer
messages_of(result) ==
    IF result.tag = "results" THEN result.results ELSE <<>>

fetch_error(result) ==
    IF result.tag = "None" THEN "quota"
    ELSE IF result.tag = "malformed" THEN "unexpected"
    ELSE None

\* the error check left out
FetchFailed_never(err) == FALSE

\* 'if error_message:' of main
FetchFailed(err) == err # None

\* every intro with an author id is queued
NeedsProfileSearch_any(intro_data, user_id) == user_id # ""

\* 'if intro_data[linkedin_link] ... else ... if user_id:' of main
NeedsProfileSearch(intro_data, user_id) ==
    intro_data.linkedin_link = None /\ user_id # ""

\* the body of the Phase 1 loop for one message
phase1_step(acc, message) ==
    IF ~is_intro_message(message.text) THEN acc
    ELSE LET intro_data == parse_intro_message(message)
             pos == Len(acc.list) + 1
         IN [list |-> Append(acc.list, intro_data),
             by_username |->
                 [u \in DOMAIN acc.by_username \cup {intro_data.username} |->
                     IF u = intro_data.username THEN pos ELSE acc.by_username[u]],
             pending |->
                 IF NeedsProfileSearch(intro_data, message.user.id)
                 THEN Append(acc.pending, <<message.user.id, intro_data.username>>)
                 ELSE acc.pending]

RECURSIVE phase1(_, _, _)
phase1(acc, messages, i) ==
    IF i > Len(messages) THEN acc
    ELSE phase1(phase1_step(acc, messages[i]), messages, i + 1)

\* Config._validate_config on the welcome template
valid_template(template) ==
    template # <<>> /\ "{first_name}" \in SeqRange(template)

\* the attributes of a Config object
ConfigAttributes(config) == {"slack", "linkedin", "output", "logging", "welcome"}

\* Config(): the welcome template comes from the environment
Config(template) == [welcome |-> [template |-> template]]

\* str.capitalize()
capitalize(name) ==
    CASE name = "ann" -> "Ann"
      [] name = "bob" -> "Bob"
      [] OTHER -> name

\* template.format(first_name=...)
format(template, first_name) ==
    [i \in 1..Len(template) |->
        IF template[i] = "{first_name}" THEN first_name ELSE template[i]]

\* generate_welcome_message with the config object at hand
generate_welcome_message(config, intro_data) ==
    IF "welcome_message_template" \in ConfigAttributes(config)
    THEN Return(format(config.welcome.template, capitalize(intro_data.first_name)))
    ELSE Raise("AttributeError")

\* Phase 3 of main: the welcome messages, or the exception that ends the loop
RECURSIVE phase3(_, _, _, _)
phase3(config, list, i, acc) ==
    IF i > Len(list) THEN Return(acc)
    ELSE LET w == generate_welcome_message(config, list[i])
         IN IF w.how = "raise" THEN w
            ELSE phase3(config, list, i + 1, Append(acc, <<list[i], w.val>>))

\* the section save_daily_intro_report writes after the header
report_section(pairs, error_info) ==
    IF error_info # None THEN "error"
    ELSE IF pairs = <<>> THEN "empty"
    ELSE "summary"

\* the LinkedIn line save_daily_intro_report writes for one record
linkedin_line(intro_data) ==
    IF intro_data.linkedin_link # None
    THEN IF intro_data.profile_checked THEN "link (from profile)" ELSE "link"
    ELSE IF intro_data.profile_checked
         THEN "Not found in message or Slack profile"
         ELSE "Not provided"

save_daily_intro_report(pairs, error_info) ==
    [written |-> TRUE, section |-> report_section(pairs, error_info),
     entries |-> pairs,
     linkedin |-> [i \in DOMAIN pairs |-> linkedin_line(pairs[i][1])]]

TemplateSamples == {<<"Hi ", "{first_name}", "!">>, <<"Hello!">>}

Init ==
    /\ pc = "start"
    /\ env_template \in TemplateSamples
    /\ config_cache = None
    /\ fetch_issued = FALSE
    /\ recent_messages = <<>>
    /\ error_message = None
    /\ idx = 1
    /\ intro_data_list = <<>>
    /\ intro_data_by_username = <<>>
    /\ users_needing_profile_search = <<>>
    /\ resolver_calls = <<>>
    /\ welcome_messages = <<>>
    /\ report = NoReport
    /\ ResolverIdle
    /\ LimiterIdle
    /\ FnIdle

\* main up to the batch message search
MainFetch ==
    /\ pc = "start"
    /\ pc' = "fetching"
    /\ fetch_issued' = TRUE
    /\ UNCHANGED <<env_template, config_cache, recent_messages, error_message,
                   idx, intro_data_list, intro_data_by_username,
                   users_needing_profile_search, resolver_calls,
                   welcome_messages, report, resolver_vars, fn_vars, limiter_vars>>

\* the batch search returns: the error report, or Phase 1 over all messages
FetchReturns ==
    /\ pc = "fetching"
    /\ \E resp \in FetchResponses :
         LET result == call_function(resp, FALSE)
             err == fetch_error(result)
             acc == phase1([list |-> <<>>, by_username |-> <<>>, pending |-> <<>>],
                           messages_of(result), 1)
         IN /\ recent_messages' = messages_of(result)
            /\ error_message' = err
            /\ IF FetchFailed(err)
               THEN /\ report' = save_daily_intro_report(<<>>, err)
                    /\ pc' = "done"
                    /\ UNCHANGED <<intro_data_list, intro_data_by_username,
                                   users_needing_profile_search>>
               ELSE /\ intro_data_list' = acc.list
                    /\ intro_data_by_username' = acc.by_username
                    /\ users_needing_profile_search' = acc.pending
                    /\ pc' = "resolve"
                    /\ report' = report
    /\ UNCHANGED <<env_template, config_cache, fetch_issued, idx,
                   resolver_calls, welcome_messages, resolver_vars,
                   fn_vars, limiter_vars>>

\* Phase 2, one pending user: the call of safe_profile_search_for_daily_intros
ResolveCall ==
    /\ pc = "resolve"
    /\ idx <= Len(users_needing_profile_search)
    /\ ResolverEnter(users_needing_profile_search[idx][1],
                     users_needing_profile_search[idx][2])
    /\ resolver_calls' =
           Append(resolver_calls,
                  [user_id |-> users_needing_profile_search[idx][1],
                   username |-> users_needing_profile_search[idx][2],
                   how |-> "pending", result |-> None])
    /\ UNCHANGED <<pc, env_template, config_cache, fetch_issued, recent_messages,
                   error_message, idx, intro_data_list, intro_data_by_username,
                   users_needing_profile_search, welcome_messages, report,
                   fn_vars, limiter_vars>>

set_linkedin_link_checked(intro_data, link) ==
    [intro_data EXCEPT !.linkedin_link = link, !.profile_checked = TRUE]

\* intro_data_by_username[username]['linkedin_link'] = profile_linkedin
set_linkedin_link(intro_data, link) ==
    [intro_data EXCEPT !.linkedin_link = link]

\* Phase 2, the resolver is back: the link goes to the record that
\* intro_data_by_username holds for the username
ResolveReturn ==
    /\ pc = "resolve"
    /\ rpc = "returned"
    /\ LET username == users_needing_profile_search[idx][2]
           n == Len(resolver_calls)
       IN /\ resolver_calls' =
                 [resolver_calls EXCEPT ![n].how = r_result.how,
                                        ![n].result = r_result.val]
          /\ intro_data_list' =
                 IF /\ r_result.how = "return"
                    /\ r_result.val # None
                    /\ username \in DOMAIN intro_data_by_username
                 THEN [intro_data_list EXCEPT
                          ![intro_data_by_username[username]] =
                              set_linkedin_link(@, r_result.val)]
                 ELSE intro_data_list
    /\ idx' = idx + 1
    /\ rpc' = "idle"
    /\ r_user' = ""
    /\ r_username' = ""
    /\ alarm' = alarm
    /\ elapsed' = 0
    /\ delay' = 0
    /\ rlog' = <<>>
    /\ primary' = "pending"
    /\ search_outcome' = Pending
    /\ r_result' = Pending
    /\ UNCHANGED <<pc, env_template, config_cache, fetch_issued, recent_messages,
                   error_message, intro_data_by_username,
                   users_needing_profile_search, welcome_messages, report,
                   fn_vars, limiter_vars>>

\* Phase 3 and the report: _get_cached_config loads the configuration on the
\* first generate_welcome_message; an exception leaves main
RenderAndSave ==
    /\ pc = "resolve"
    /\ rpc = "idle"
    /\ idx > Len(users_needing_profile_search)
    /\ IF intro_data_list = <<>>
       THEN /\ report' = save_daily_intro_report(<<>>, None)
            /\ pc' = "done"
            /\ UNCHANGED <<config_cache, welcome_messages>>
       ELSE IF ~valid_template(env_template)
       THEN /\ pc' = "crashed"
            /\ UNCHANGED <<config_cache, welcome_messages, report>>
       ELSE LET config == Config(env_template)
                w == phase3(config, intro_data_list, 1, <<>>)
            IN /\ config_cache' = config
               /\ IF w.how = "raise"
                  THEN /\ pc' = "crashed"
                       /\ UNCHANGED <<welcome_messages, report>>
                  ELSE /\ welcome_messages' = w.val
                       /\ report' = save_daily_intro_report(w.val, None)
                       /\ pc' = "done"
    /\ UNCHANGED <<env_template, fetch_issued, recent_messages, error_message,
                   idx, intro_data_list, intro_data_by_username,
                   users_needing_profile_search, resolver_calls, resolver_vars,
                   fn_vars, limiter_vars>>

Next ==
    \/ MainFetch
    \/ FetchReturns
    \/ ResolveCall
    \/ ByIdReturns
    \/ RecentReturns
    \/ ByUsernameReturns
    \/ ResolveReturn
    \/ RenderAndSave

Spec == Init /\ [][Next]_vars

----------------------------------------------------------------------------
(* The link extractors on their own.  Here a text is a sequence of symbols, *)
(* each symbol a run of characters that every pattern treats alike: a       *)
(* scheme, the domain, a path word, a name, one punctuation mark.  No       *)
(* pattern can begin or end a match inside a symbol, so re.search is        *)
(* computed symbol by symbol.                                               *)

MaxTail == 2          \* symbols that follow the head of the first URL

NoUrl == <<>>         \* None of an extractor (a URL is never empty)

\* the symbol at position i, "" outside the text
At(text, i) == IF i \in 1..Len(text) THEN text[i] ELSE ""

\* https?://
SchemeSyms == {"https://", "http://"}

\* linkedin\.com under re.IGNORECASE
DomainSyms == {"linkedin.com", "LinkedIn.com"}

\* the symbols made of characters of [\w\-\.] only
WordSyms ==
    {"www", ".", "linkedin.com", "LinkedIn.com", "in", "posts", "pub", "a", "b",
     "LinkedIn", "linkedin", "This", "this"}

\* the symbols that begin with 'linkedin' in some case
LinkedinSyms == {"linkedin.com", "LinkedIn.com", "LinkedIn", "linkedin"}

\* the symbols of [.,;!?]
PunctSyms == {".", ","}

\* the character classes of the patterns
in_class(c, s) ==
    CASE c = "word" -> s \in WordSyms                              \* [\w\-\.]
      [] c = "not_gt" -> s \notin {"", ">"}                        \* [^>]
      [] c = "not_paren" -> s \notin {"", ")"}                     \* [^)]
      [] c = "posts" -> s \notin {"", " ", ">", ")", ","}          \* [^\s>)\],]
      [] c = "not_space_paren" -> s \notin {"", " ", ")"}          \* [^\s\)]

\* how many symbols of class c stand in a row from position j on
RECURSIVE run_length(_, _, _)
run_length(text, j, c) ==
    IF in_class(c, At(text, j)) THEN 1 + run_length(text, j + 1, c) ELSE 0

\* the lookaheads of the patterns, on the next symbol
lookahead(la, s) ==
    CASE la = "la_any" -> s \in {"", " ", ">"} \cup LinkedinSyms   \* (?=\s|$|>|LinkedIn|linkedin)
      [] la = "la_end" -> s \in {"", " "}                          \* (?=\s|$)
      [] la = "la_gt" -> s \in {"", " ", ">"}                      \* (?=\s|$|>)
      [] la = "la_none" -> TRUE                                    \* no lookahead

\* [https?://][(?:www\.)?]linkedin\.com/<kind>/ at position i: the position
\* after it, 0 when it does not match there
head_end(text, i, scheme, www, kind) ==
    LET a == IF scheme
             THEN (IF At(text, i) \in SchemeSyms THEN i + 1 ELSE 0)
             ELSE i
        b == IF a # 0 /\ www /\ At(text, a) = "www" /\ At(text, a + 1) = "."
             THEN a + 2 ELSE a
    IN IF /\ b # 0
          /\ At(text, b) \in DomainSyms
          /\ At(text, b + 1) = "/"
          /\ At(text, b + 2) = kind
          /\ At(text, b + 3) = "/"
       THEN b + 4 ELSE 0

\* [\w\-\.]+/? under lookahead la from position j, greedy with backtracking:
\* the last position of the match, 0 when there is none
bounded_end(text, j, la) ==
    LET n == run_length(text, j, "word")
        K == {k \in 1..n :
                \/ At(text, j + k) = "/" /\ lookahead(la, At(text, j + k + 1))
                \/ lookahead(la, At(text, j + k))}
    IN IF K = {} THEN 0
       ELSE LET k == CHOOSE x \in K : \A y \in K : y <= x
            IN IF At(text, j + k) = "/" /\ lookahead(la, At(text, j + k + 1))
               THEN j + k ELSE j + k - 1

\* <class>+ from position j, greedy
greedy_end(text, j, c) ==
    IF run_length(text, j, c) = 0 THEN 0 ELSE j + run_length(text, j, c) - 1

\* what follows the head of a pattern
tail_end(text, j, t) ==
    IF j = 0 THEN 0
    ELSE IF t \in {"posts", "not_space_paren"} THEN greedy_end(text, j, t)
    ELSE bounded_end(text, j, t)

\* <open>https?://(?:www\.)?linkedin\.com/in/<class>+<close> at position i
wrapped_end(text, i, open, c, close) ==
    LET j == IF At(text, i) = open THEN head_end(text, i + 1, TRUE, TRUE, "in") ELSE 0
        n == run_length(text, j, c)
    IN IF j # 0 /\ n >= 1 /\ At(text, j + n) = close THEN j + n ELSE 0

\* daily_intros._LINKEDIN_PATTERNS[p - 1] at position i
daily_pattern_end(p, text, i) ==
    CASE p = 1 -> wrapped_end(text, i, "<", "not_gt", ">")
      [] p = 2 -> wrapped_end(text, i, "(", "not_paren", ")")
      [] p = 3 -> tail_end(text, head_end(text, i, TRUE, TRUE, "in"), "la_any")
      [] p = 4 -> tail_end(text, head_end(text, i, TRUE, TRUE, "posts"), "posts")
      [] p = 5 -> tail_end(text, head_end(text, i, FALSE, TRUE, "in"), "la_any")
      [] p = 6 -> tail_end(text, head_end(text, i, TRUE, TRUE, "in"), "la_none")

\* src/user_profile_search._LINKEDIN_PATTERNS[p - 1] at position i
ups_pattern_end(p, text, i) ==
    CASE p = 1 -> wrapped_end(text, i, "<", "not_gt", ">")
      [] p = 2 -> wrapped_end(text, i, "(", "not_paren", ")")
      [] p = 3 -> tail_end(text, head_end(text, i, TRUE, TRUE, "in"), "la_any")
      [] p = 4 -> tail_end(text, head_end(text, i, TRUE, TRUE, "pub"), "la_end")
      [] p = 5 -> tail_end(text, head_end(text, i, FALSE, FALSE, "in"), "la_gt")
      [] p = 6 -> tail_end(text, head_end(text, i, FALSE, FALSE, "pub"), "la_gt")

\* linkedin_patterns[p - 1] of the older user_profile_search at position i
root_pattern_end(p, text, i) ==
    CASE p = 1 -> tail_end(text, head_end(text, i, TRUE, TRUE, "in"), "not_space_paren")
      [] p = 2 -> tail_end(text, head_end(text, i, TRUE, TRUE, "pub"), "not_space_paren")
      [] p = 3 -> tail_end(text, head_end(text, i, FALSE, FALSE, "in"), "not_space_paren")
      [] p = 4 -> tail_end(text, head_end(text, i, FALSE, FALSE, "pub"), "not_space_paren")

\* the three extractors: m is "daily", "ups" or "root"
pattern_count(m) == IF m = "root" THEN 4 ELSE 6

pattern_end(m, p, text, i) ==
    CASE m = "daily" -> daily_pattern_end(p, text, i)
      [] m = "ups" -> ups_pattern_end(p, text, i)
      [] m = "root" -> root_pattern_end(p, text, i)

RECURSIVE re_search(_, _, _, _)
re_search_last(m, p, text, i) ==
    LET S == {k \in i..Len(text) : pattern_end(m, p, text, k) # 0}
    IN IF S = {} THEN <<0, 0>>
       ELSE LET k == CHOOSE x \in S : \A y \in S : y <= x
            IN <<k, pattern_end(m, p, text, k)>>

\* pattern.search(text): first and last position of the leftmost match from
\* position i on, <<0, 0>> when there is none
re_search(m, p, text, i) ==
    IF i > Len(text) THEN <<0, 0>>
    ELSE IF pattern_end(m, p, text, i) # 0
         THEN <<i, pattern_end(m, p, text, i)>>
         ELSE re_search(m, p, text, i + 1)

\* url[1:-1] when the match is wrapped in <> or ()
strip_wrappers(url) ==
    IF \/ At(url, 1) = "<" /\ At(url, Len(url)) = ">"
       \/ At(url, 1) = "(" /\ At(url, Len(url)) = ")"
    THEN SubSeq(url, 2, Len(url) - 1)
    ELSE url

RECURSIVE strip_trailing(_, _)
strip_trailing(url, S) ==
    IF url # <<>> /\ url[Len(url)] \in S
    THEN strip_trailing(SubSeq(url, 1, Len(url) - 1), S)
    ELSE url

\* <word>>$ removed, for the words W
strip_word_gt(url, W) ==
    IF Len(url) >= 2 /\ url[Len(url)] = ">" /\ url[Len(url) - 1] \in W
    THEN SubSeq(url, 1, Len(url) - 2)
    ELSE url

\* daily_intros._CLEANUP_PATTERNS applied in order
apply_cleanup_patterns(url) ==
    LET u1 == strip_trailing(url, PunctSyms)                     \* [.,;!?]+$
        u2 == strip_word_gt(u1, {"LinkedIn"})                    \* LinkedIn>$
        u3 == strip_word_gt(u2, {"LinkedIn", "linkedin"})        \* linkedin>$, IGNORECASE
        u4 == IF At(u3, Len(u3)) = "This"                        \* This$
              THEN SubSeq(u3, 1, Len(u3) - 1) ELSE u3
    IN IF At(u4, Len(u4)) = "/"                                  \* /+$ -> /
       THEN Append(strip_trailing(u4, {"/"}), "/")
       ELSE u4

\* 'https://' + url when url does not start with 'http'
ensure_protocol(url) ==
    IF At(url, 1) \in SchemeSyms THEN url ELSE <<"https://">> \o url

\* str.lower()
lower_sym(s) ==
    CASE s = "LinkedIn.com" -> "linkedin.com"
      [] s = "LinkedIn" -> "linkedin"
      [] s = "This" -> "this"
      [] OTHER -> s

lower(url) == [i \in DOMAIN url |-> lower_sym(url[i])]

\* what each extractor does to the matched text
clean_match(m, url) ==
    CASE m = "daily" -> ensure_protocol(apply_cleanup_patterns(strip_wrappers(url)))
      [] m = "ups" -> lower(ensure_protocol(strip_wrappers(url)))
      [] m = "root" -> ensure_protocol(url)

\* 'for pattern in patterns: match = pattern.search(text); if match: ...'
RECURSIVE extract_with(_, _, _)
extract_with(m, p, text) ==
    IF p > pattern_count(m) THEN NoUrl
    ELSE LET r == re_search(m, p, text, 1)
         IN IF r[1] # 0
            THEN clean_match(m, SubSeq(text, r[1], r[2]))
            ELSE extract_with(m, p + 1, text)

\* daily_intros.extract_linkedin_link
daily_extract_linkedin_link(text) == extract_with("daily", 1, text)

\* src/user_profile_search.extract_linkedin_link
ups_extract_linkedin_link(text) ==
    IF text = <<>> THEN NoUrl ELSE extract_with("ups", 1, text)

\* extract_linkedin_link of the older user_profile_search
root_extract_linkedin_link(text) ==
    IF text = <<>> THEN NoUrl ELSE extract_with("root", 1, text)

TailSyms == {"a", ".", "/", " ", ">", ")", ",", "This", "LinkedIn"}

Tails == UNION {[1..n -> TailSyms] : n \in 0..MaxTail}

Heads ==
    {<<"https://", "linkedin.com", "/", "in", "/">>,
     <<"http://", "linkedin.com", "/", "in", "/">>,
     <<"linkedin.com", "/", "in", "/">>,
     <<"https://", "www", ".", "linkedin.com", "/", "in", "/">>,
     <<"www", ".", "linkedin.com", "/", "in", "/">>,
     <<"https://", "LinkedIn.com", "/", "in", "/">>,
     <<"https://", "linkedin.com", "/", "posts", "/">>,
     <<"https://", "linkedin.com", "/", "pub", "/">>,
     <<"linkedin.com", "/", "pub", "/">>}

Openers == {<<>>, <<"<">>, <<"(">>}

\* a second URL later in the text
Seconds ==
    {<<>>,
     <<" ", "https://", "linkedin.com", "/", "in", "/", "b">>,
     <<" ", "<", "https://", "linkedin.com", "/", "in", "/", "b", ">">>}

ExtractTexts ==
    {o \o h \o t \o s : o \in Openers, h \in Heads, t \in Tails, s \in Seconds}

InitExtract ==
    /\ pc = "extract"
    /\ MainIdle
    /\ ResolverIdle
    /\ LimiterIdle
    /\ arg \in ExtractTexts
    /\ ret = Pending

\* each extractor applied to the text
ExtractLinks ==
    /\ pc = "extract"
    /\ ret = Pending
    /\ ret' = [how |-> "return",
               val |-> [daily |-> daily_extract_linkedin_link(arg),
                        ups |-> ups_extract_linkedin_link(arg),
                        root |-> root_extract_linkedin_link(arg)]]
    /\ UNCHANGED <<arg, main_vars, resolver_vars, limiter_vars>>

\* each extractor applied to the URL it returned
ExtractAgain ==
    /\ pc = "extract"
    /\ ret.how = "return"
    /\ ret' = [how |-> "again",
               val |-> ret.val,
               again |-> [daily |-> daily_extract_linkedin_link(ret.val.daily),
                          ups |-> ups_extract_linkedin_link(ret.val.ups),
                          root |-> root_extract_linkedin_link(ret.val.root)]]
    /\ UNCHANGED <<arg, main_vars, resolver_vars, limiter_vars>>

NextExtract ==
    \/ ExtractLinks
    \/ ExtractAgain

SpecExtract == InitExtract /\ [][NextExtract]_vars

----------------------------------------------------------------------------
(* The classifier on its own, for messages whose text fields can be         *)
(* missing, None or a string                                                *)

Missing == [kind |-> "missing", val |-> <<>>]
NoneValue == [kind |-> "none", val |-> <<>>]
Str(text) == [kind |-> "str", val |-> text]

\* dict.get(key, default)
dict_get(field, default) == IF field.kind = "missing" THEN default ELSE field

\* the truth value Python gives a text field
truthy(v) == v.kind = "str" /\ v.val # <<>>

\* a or b
py_or(a, b) == IF truthy(a) THEN a ELSE b

\* is_intro_message(v): text.lower() raises on None
call_is_intro_message(v) ==
    IF v.kind = "none" THEN Raise("AttributeError")
    ELSE Return(is_intro_message(v.val))

\* message.get('text', '') or message.get('raw_text', '')
message_text(message) ==
    py_or(dict_get(message.text, Str(<<>>)), dict_get(message.raw_text, Str(<<>>)))

\* parse_intro_message(message): <<>> stands for None, <<r>> for the record r
call_parse_intro_message(message) ==
    LET text == message_text(message)
        c == call_is_intro_message(text)
    IN IF c.how = "raise" THEN c
       ELSE IF ~c.val THEN Return(<<>>)
       ELSE Return(<<parse_intro_message([user |-> message.user,
                                          text |-> text.val,
                                          permalink |-> message.permalink])>>)

\* the samples and an intro message with its link after a long passage
TextFields ==
    {Missing, NoneValue, Str(<<>>)}
        \cup {Str(t) : t \in TextSamples}
        \cup {Str(<<"Hi everyone", LongPassage, "https://www.linkedin.com/in/Ann">>)}

ClassifyMessages ==
    [user : AuthorSamples, text : TextFields, raw_text : TextFields, permalink : {1}]

InitClassify ==
    /\ pc = "classify"
    /\ MainIdle
    /\ ResolverIdle
    /\ LimiterIdle
    /\ arg \in ClassifyMessages
    /\ ret = Pending

\* is_intro_message called with the message's 'text'
ClassifyText ==
    /\ pc = "classify"
    /\ ret = Pending
    /\ arg.text.kind # "missing"
    /\ ret' = [fn |-> "is_intro_message",
               how |-> call_is_intro_message(arg.text).how,
               val |-> call_is_intro_message(arg.text).val]
    /\ UNCHANGED <<arg, main_vars, resolver_vars, limiter_vars>>

\* parse_intro_message called with the message
ParseMessage ==
    /\ pc = "classify"
    /\ ret = Pending
    /\ ret' = [fn |-> "parse_intro_message",
               how |-> call_parse_intro_message(arg).how,
               val |-> call_parse_intro_message(arg).val]
    /\ UNCHANGED <<arg, main_vars, resolver_vars, limiter_vars>>

NextClassify ==
    \/ ClassifyText
    \/ ParseMessage

SpecClassify == InitClassify /\ [][NextClassify]_vars

----------------------------------------------------------------------------
(* rate_limiter.RateLimiter: one limiter, called by one thread or by two.  *)
(* Times are counted in tenths of a second.  A thread can be preempted     *)
(* between reading the limiter (clean-up and sleep time), sleeping and     *)
(* appending its call.                                                     *)

\* one second, the span of the burst check and the burst sleep
Second == 10

\* the 0.1 s added to the sleep for the per-minute limit
Margin == 1

\* the limiter of the module's self-test: RateLimiter(5, 2)
calls_per_minute == 5
burst_limit == 2
window_seconds == 60

window == window_seconds * Second

MaxCalls == 6
MaxPauses == 3

\* time that passes between two steps of the callers
Pauses == {Second \div 2, Second, 58 * Second}

IdleCaller == [at |-> "idle", now |-> 0, sleep_time |-> 0]

\* RateLimiter._clean_old_calls
RECURSIVE _clean_old_calls(_, _)
_clean_old_calls(times, now) ==
    IF times # <<>> /\ now - times[1] > window
    THEN _clean_old_calls(Tail(times), now)
    ELSE times

\* RateLimiter._get_sleep_time
_get_sleep_time(times, now) ==
    IF Len(times) >= calls_per_minute
    THEN window - (now - times[1]) + Margin
    ELSE LET recent_calls ==
                 Cardinality({i \in DOMAIN times : now - times[i] < Second})
         IN IF recent_calls >= burst_limit THEN Second ELSE 0

\* deque(maxlen=max(calls_per_minute, burst_limit)).append: a full deque
\* drops its oldest entry
deque_append(times, t) ==
    LET maxlen == IF calls_per_minute >= burst_limit
                  THEN calls_per_minute ELSE burst_limit
    IN IF Len(times) >= maxlen THEN Append(Tail(times), t) ELSE Append(times, t)

InitLimiter ==
    /\ pc = "limiter"
    /\ MainIdle
    /\ ResolverIdle
    /\ FnIdle
    /\ call_times = <<>>
    /\ clock = 0
    /\ \E callers \in {{"t1"}, {"t1", "t2"}} :
           threads = [t \in callers |-> IdleCaller]
    /\ admitted = <<>>
    /\ pauses = 0

\* wait_if_needed up to the sleep: the time is read, old calls are dropped
\* and the sleep time is computed
CheckLimit(t) ==
    /\ threads[t].at = "idle"
    /\ Len(admitted) + Cardinality({u \in DOMAIN threads : threads[u].at # "idle"})
           < MaxCalls
    /\ LET cleaned == _clean_old_calls(call_times, clock)
           sleep_time == _get_sleep_time(cleaned, clock)
       IN /\ call_times' = cleaned
          /\ threads' =
                 [threads EXCEPT
                     ![t] = [at |-> IF sleep_time > 0 THEN "sleep" ELSE "append",
                             now |-> clock, sleep_time |-> sleep_time]]
    /\ UNCHANGED <<clock, admitted, pauses>>

\* time.sleep(sleep_time) is over: the time is read again and old calls are
\* dropped
WakeUp(t) ==
    /\ threads[t].at = "sleep"
    /\ clock' = IF clock >= threads[t].now + threads[t].sleep_time
                 THEN clock
                 ELSE threads[t].now + threads[t].sleep_time
    /\ call_times' = _clean_old_calls(call_times, clock')
    /\ threads' = [threads EXCEPT ![t].at = "append", ![t].now = clock']
    /\ UNCHANGED <<admitted, pauses>>

\* self.call_times.append(now): the call is admitted
AppendCall(t) ==
    /\ threads[t].at = "append"
    /\ call_times' = deque_append(call_times, threads[t].now)
    /\ admitted' = Append(admitted, threads[t].now)
    /\ threads' = [threads EXCEPT ![t] = IdleCaller]
    /\ UNCHANGED <<clock, pauses>>

\* time passes while no caller runs
Pause ==
    /\ pauses < MaxPauses
    /\ \E d \in Pauses : clock' = clock + d
    /\ pauses' = pauses + 1
    /\ UNCHANGED <<call_times, threads, admitted>>

NextLimiter ==
    /\ pc = "limiter"
    /\ \/ \E t \in DOMAIN threads : CheckLimit(t)
       \/ \E t \in DOMAIN threads : WakeUp(t)
       \/ \E t \in DOMAIN threads : AppendCall(t)
       \/ Pause
    /\ UNCHANGED <<main_vars, resolver_vars, fn_vars>>

SpecLimiter == InitLimiter /\ [][NextLimiter]_vars

----------------------------------------------------------------------------
(* InputValidator.sanitize_text on its own, character by character.  A     *)
(* text is a sequence of characters; the inputs are made of fragments that *)
(* the blocked patterns are built from.                                    *)

\* a control character (\x07)
BEL == "BEL"

\* the character `
BACKTICK == "BACKTICK"

Whitespace == {" "}

\* \w over the characters of the fragments
WordChars ==
    {"a", "b", "c", "d", "i", "j", "n", "o", "p", "r", "s", "t", "v", "x", "J"}

\* str.lower over the characters of the fragments
lower_char(c) == IF c = "J" THEN "j" ELSE c

JAVASCRIPT == <<"j", "a", "v", "a", "s", "c", "r", "i", "p", "t", ":">>
DATA == <<"d", "a", "t", "a", ":">>
VBSCRIPT == <<"v", "b", "s", "c", "r", "i", "p", "t", ":">>

literal(lit) == [kind |-> "literal", lit |-> lit]

\* InputValidator.DANGEROUS_PATTERNS, in the order of the list
DANGEROUS_PATTERNS ==
    << [kind |-> "class", set |-> {"<", ">", "\"", "'"}],
       literal(JAVASCRIPT),
       literal(DATA),
       literal(VBSCRIPT),
       [kind |-> "handler"],
       literal(<<"<", "s", "c", "r", "i", "p", "t">>),
       literal(<<"<", "i", "f", "r", "a", "m", "e">>),
       literal(<<"<", "o", "b", "j", "e", "c", "t">>),
       literal(<<"<", "e", "m", "b", "e", "d">>),
       literal(<<"<", "l", "i", "n", "k">>),
       literal(<<"<", "m", "e", "t", "a">>),
       literal(<<".", ".", "/">>),
       literal(<<".", ".", "\\">>),
       [kind |-> "class", set |-> {";", "&", "|", BACKTICK, "$"}] >>

\* the position after the longest run of characters of set that starts at i
RECURSIVE run_end(_, _, _)
run_end(text, i, set) ==
    IF i <= Len(text) /\ text[i] \in set THEN run_end(text, i + 1, set) ELSE i

\* the position after the match of pattern that starts at i, 0 without a
\* match (re.IGNORECASE)
match_end(pattern, text, i) ==
    CASE pattern.kind = "class" ->
            IF text[i] \in pattern.set THEN i + 1 ELSE 0
      [] pattern.kind = "literal" ->
            IF /\ i + Len(pattern.lit) - 1 <= Len(text)
               /\ \A k \in 1..Len(pattern.lit) :
                      lower_char(text[i + k - 1]) = lower_char(pattern.lit[k])
            THEN i + Len(pattern.lit) ELSE 0
      [] pattern.kind = "handler" ->
            \* on\w+\s*=
            IF /\ i + 1 <= Len(text)
               /\ lower_char(text[i]) = "o"
               /\ lower_char(text[i + 1]) = "n"
            THEN LET w == run_end(text, i + 2, WordChars)
                     e == run_end(text, w, Whitespace)
                 IN IF w > i + 2 /\ e <= Len(text) /\ text[e] = "="
                    THEN e + 1 ELSE 0
            ELSE 0

\* pattern.sub('', text): every match is removed, from left to right
RECURSIVE sub(_, _, _)
sub(pattern, text, i) ==
    IF i > Len(text) THEN <<>>
    ELSE LET e == match_end(pattern, text, i)
         IN IF e > 0 THEN sub(pattern, text, e)
            ELSE <<text[i]>> \o sub(pattern, text, i + 1)

\* the loop over DANGEROUS_PATTERNS, from pattern p on
RECURSIVE remove_patterns(_, _)
remove_patterns(text, p) ==
    IF p > Len(DANGEROUS_PATTERNS) THEN text
    ELSE remove_patterns(sub(DANGEROUS_PATTERNS[p], text, 1), p + 1)

\* str.strip
RECURSIVE strip(_)
strip(text) ==
    IF text = <<>> THEN text
    ELSE IF text[1] \in Whitespace THEN strip(Tail(text))
    ELSE IF text[Len(text)] \in Whitespace
         THEN strip(SubSeq(text, 1, Len(text) - 1))
    ELSE text

\* InputValidator.sanitize_text(text) on a str
validator_sanitize_text(text) ==
    IF text = <<>> THEN <<>>
    ELSE LET cut == IF Len(text) > MAX_INPUT_LENGTH
                    THEN SubSeq(text, 1, MAX_INPUT_LENGTH) ELSE text
             control == [kind |-> "class", set |-> {BEL}]
         IN strip(sub(control, remove_patterns(cut, 1), 1))

MaxFragments == 4

Fragments ==
    { <<"j", "a", "v", "a">>, <<"J", "a", "v", "a">>, <<"v", "b">>,
      <<"s", "c", "r", "i", "p", "t", ":">>, <<"d", "a">>, <<"t", "a", ":">>,
      <<"<">>, <<";">>, <<BEL>>, <<"x">>, <<" ">> }

RECURSIVE Joined(_)
Joined(n) ==
    IF n = 0 THEN {<<>>}
    ELSE Joined(n - 1) \cup {t \o f : t \in Joined(n - 1), f \in Fragments}

InitSanitize ==
    /\ pc = "sanitize"
    /\ MainIdle
    /\ ResolverIdle
    /\ LimiterIdle
    /\ arg \in Joined(MaxFragments)
    /\ ret = Pending

SanitizeText ==
    /\ pc = "sanitize"
    /\ ret = Pending
    /\ ret' = Return(validator_sanitize_text(arg))
    /\ UNCHANGED <<arg, main_vars, resolver_vars, limiter_vars>>

SpecSanitize == InitSanitize /\ [][SanitizeText]_vars

----------------------------------------------------------------------------
(* Properties *)

\* the resolve phase of main is over
AfterResolve ==
    \/ pc \in {"done", "crashed"}
    \/ pc = "resolve" /\ rpc = "idle" /\ idx > Len(users_needing_profile_search)

\* main has ended, by return or by an exception
Ended == pc \in {"done", "crashed"}

\* the inline link main finds in a fetched message
inline_link(message) == extract_linkedin_link(sanitize_text(message.text))

IntroMessages == SelectSeq(recent_messages, LAMBDA m : is_intro_message(m.text))

\* C1: once the resolver is entered it eventually returns, and no later
\* than its timeout, whatever the remote calls do (a call that hangs ends
\* only when the alarm interrupts it).
C1_ResolverReturnsInTime ==
    (rpc = "by_id") ~> (rpc = "returned" /\ elapsed <= SAFE_TIMEOUT)

\* C2: in one run the resolver is invoked at most once per author id.
C2_OneCallPerAuthor ==
    \A i, j \in DOMAIN resolver_calls :
        resolver_calls[i].user_id = resolver_calls[j].user_id => i = j

\* the intro messages of the batch written under a username are all of
\* one author, who has none with an inline link
SoleLinklessAuthor(user_id, username) ==
    \A m \in DOMAIN IntroMessages :
        (IntroMessages[m].user.id = user_id \/ IntroMessages[m].user.name = username)
            => /\ IntroMessages[m].user.id = user_id
               /\ IntroMessages[m].user.name = username
               /\ inline_link(IntroMessages[m]) = None

\* C3: after the resolve phase, when the resolver returned a link for an
\* author none of whose intro messages has an inline link (and whose
\* username no other author of the batch has), every IntroRecord of that
\* author carries a link.
C3_EveryRecordOfAuthorLinked ==
    AfterResolve =>
        \A c \in DOMAIN resolver_calls :
            (/\ resolver_calls[c].result # None
             /\ SoleLinklessAuthor(resolver_calls[c].user_id,
                                   resolver_calls[c].username))
            => \A k \in DOMAIN intro_data_list :
                   intro_data_list[k].user_id = resolver_calls[c].user_id
                       => intro_data_list[k].linkedin_link # None

\* C4: when the profile-by-id step has yielded no link (no link in the
\* profile, nothing returned, an error, a malformed answer), the next remote
\* call of the resolver is the recent-message search.
C4_RecentSearchAfterPrimary ==
    primary \in {"nolink", "nothing", "error", "malformed"}
        => Len(rlog) >= 2 /\ rlog[2] = "slack_find_message"

\* C5: the resolver and its inner search never hand an exception to their
\* caller: each ends by returning a string, a link or none.
C5_ResolverNeverRaises ==
    /\ search_outcome.how \in {"pending", "return"}
    /\ rpc = "returned" => r_result.how = "return" /\ r_result.val \in STRING

C5_Witness ==
    /\ rpc = "returned"
    /\ primary = "malformed"
    /\ r_result = Return(None)

\* C6: when the batch fetch fails the run has ended with the error report:
\* no IntroRecord, no resolver call, and the report carries the error section.
C6_FetchFailureAborts ==
    error_message # None =>
        /\ pc = "done"
        /\ intro_data_list = <<>>
        /\ users_needing_profile_search = <<>>
        /\ resolver_calls = <<>>
        /\ rpc = "idle"
        /\ report.written
        /\ report.section = "error"
        /\ report.entries = <<>>

C6_Witness ==
    /\ error_message = "quota"
    /\ pc = "done"
    /\ report.section = "error"

\* C7: when a profile resolution failed in a run with a valid
\* configuration, the run still ends with every pending author resolved and
\* with a report that holds every IntroRecord, the failing author's record
\* without a link.
C7_LookupFailureKeepsBatch ==
    (/\ Ended
     /\ valid_template(env_template)
     /\ error_message = None
     /\ \E c \in DOMAIN resolver_calls : resolver_calls[c].result = None)
    => /\ pc = "done"
       /\ Len(resolver_calls) = Len(users_needing_profile_search)
       /\ report.written
       /\ [k \in DOMAIN report.entries |-> report.entries[k][1]] = intro_data_list

\* C8: when a run with a valid configuration and a successful fetch has
\* ended, the report lists exactly the fetched messages the classifier
\* accepts, in fetch order.
C8_ReportInFetchOrder ==
    (Ended /\ valid_template(env_template) /\ error_message = None)
    => /\ report.written
       /\ [k \in DOMAIN report.entries |-> report.entries[k][1].permalink]
              = [k \in DOMAIN IntroMessages |-> IntroMessages[k].permalink]

C10_ConfigErrorBeforeRemoteCalls ==
    ~valid_template(env_template) => ~fetch_issued /\ resolver_calls = <<>>

\* C11: whenever a remote call of the resolver is in flight an alarm is
\* armed, and it fires no later than the outer deadline counted from the
\* entry of the resolver.
C11_CallInFlightGuarded ==
    rpc \in {"by_id", "recent", "by_username"}
        => alarm > 0 /\ elapsed + alarm <= SAFE_TIMEOUT

\* C12: the remote calls of one resolver invocation are issued in the order
\* profile by id, recent-message search, profile by username, each at most
\* once; no call follows a step that found a link; the by-username call is
\* issued only for a username that is given and differs from the author id.
C12_CallsInOrder ==
    /\ rlog \in {<<>>,
                 <<"slack_find_user_by_id">>,
                 <<"slack_find_user_by_id", "slack_find_message">>,
                 <<"slack_find_user_by_id", "slack_find_user_by_username">>,
                 <<"slack_find_user_by_id", "slack_find_message",
                   "slack_find_user_by_username">>}
    /\ primary = "link" => rlog = <<"slack_find_user_by_id">>
    /\ (search_outcome.how = "return" /\ search_outcome.val # None)
           => \A k \in DOMAIN rlog : rlog[k] # "slack_find_user_by_username"
    /\ (\E k \in DOMAIN rlog : rlog[k] = "slack_find_user_by_username")
           => r_username # "" /\ r_username # r_user

C12_Witness ==
    /\ rpc = "returned"
    /\ rlog = <<"slack_find_user_by_id", "slack_find_message",
                "slack_find_user_by_username">>
    /\ r_username = "ann"
    /\ r_result.val # None

\* every field of the scanned profile in the traversal order: the standard
\* fields as declared, then the custom fields as given
TraversalOrder == standard_values(arg) \o arg.custom

LinkBearing == {i \in DOMAIN TraversalOrder :
                   profile_extract_linkedin_link(TraversalOrder[i]) # None}

\* C13: the profile field scan returns the link of the first link-bearing
\* field in the traversal order (standard fields in the declared order, then
\* custom fields in the given order), and none when no field bears a link.
C13_FirstLinkBearingField ==
    (pc = "scan" /\ ret # Pending) =>
        IF LinkBearing = {} THEN ret = Return(None)
        ELSE \E i \in LinkBearing :
                 /\ \A j \in LinkBearing : i <= j
                 /\ ret = Return(profile_extract_linkedin_link(TraversalOrder[i]))

C13_Witness ==
    /\ pc = "scan"
    /\ arg.std["email"] = <<"PM", "linkedin.com/in/bobacme">>
    /\ arg.custom = <<<<"https://www.linkedin.com/in/Ann">>>>
    /\ ret = Return("https://linkedin.com/in/bobacme")

\* the extractors have been applied to the text
Extracted == pc = "extract" /\ ret.how \in {"return", "again"}

\* C14: when the text holds a LinkedIn URL in one of the six shapes, the URL
\* that daily_intros.extract_linkedin_link returns starts with https://, is
\* not wrapped in an angle bracket or a parenthesis, and does not end with
\* sentence punctuation.
C14_CleanedUrl ==
    (Extracted /\ ret.val.daily # NoUrl) =>
        LET u == ret.val.daily
        IN /\ u[1] = "https://"
           /\ u[Len(u)] \notin {">", ")"}
           /\ u[Len(u)] \notin PunctSyms

\* C15: an extractor applied to a URL it returned gives that URL again.
C15_Idempotent ==
    (pc = "extract" /\ ret.how = "again") =>
        /\ ret.val.daily # NoUrl => ret.again.daily = ret.val.daily
        /\ ret.val.ups # NoUrl => ret.again.ups = ret.val.ups

\* the URL has a symbol other than '/' after each '/in/'
UsernameNotEmpty(u) ==
    \A i \in DOMAIN u :
        (u[i] = "/" /\ At(u, i + 1) = "in" /\ At(u, i + 2) = "/")
            => At(u, i + 3) \notin {"", "/"}

\* C16: daily_intros.extract_linkedin_link returns none or a URL with at
\* least one character between /in/ and the next / or the end.
C16_UsernameNotEmpty ==
    Extracted => UsernameNotEmpty(ret.val.daily)

\* the matches of the daily patterns in the text: <<pattern, position>>
DailyMatches ==
    {m \in (1..6) \X (1..Len(arg)) : daily_pattern_end(m[1], arg, m[2]) # 0}

C18_ExtractorsAgree ==
    Extracted =>
        /\ ret.val.daily = ret.val.ups
        /\ ret.val.daily = ret.val.root

\* C19: is_intro_message never raises and gives false for an empty and for
\* a None text; parse_intro_message, which reaches it, never raises either
\* and returns none for a message whose text is missing, None or empty.
C19_ClassifierTotal ==
    (pc = "classify" /\ ret # Pending) =>
        /\ ret.how = "return"
        /\ (ret.fn = "is_intro_message" /\ ~truthy(arg.text)) => ret.val = FALSE
        /\ (ret.fn = "parse_intro_message" /\ ~truthy(message_text(arg)))
               => ret.val = <<>>

\* C20: when a run with a valid configuration and a successful fetch has
\* ended, there is one welcome message per IntroRecord, and it is the
\* configured template with {first_name} replaced by the record's
\* capitalised first name.
C20_WelcomeFromTemplate ==
    (Ended /\ valid_template(env_template) /\ error_message = None) =>
        /\ Len(welcome_messages) = Len(intro_data_list)
        /\ \A k \in DOMAIN welcome_messages :
               welcome_messages[k] =
                   <<intro_data_list[k],
                     format(env_template, capitalize(intro_data_list[k].first_name))>>

\* the IntroRecord as Phase 1 created it
Created(k) == parse_intro_message(IntroMessages[k])

\* the records that exist before and after a step
Kept == DOMAIN intro_data_list \cap DOMAIN intro_data_list'

\* C22: an IntroRecord changes at most once after its creation: the step
\* that changes it finds it as created, writes only its link, and is the
\* return of a resolver call that found a link for the record's author.
C22_MutatedAtMostOnce ==
    [][\A k \in Kept :
          intro_data_list'[k] # intro_data_list[k] =>
              /\ intro_data_list[k] = Created(k)
              /\ intro_data_list'[k] =
                     [intro_data_list[k] EXCEPT !.linkedin_link = r_result.val]
              /\ rpc = "returned"
              /\ r_result.val # None
              /\ r_user = intro_data_list[k].user_id]_vars

\* C23: the link a resolver call returned for an author is written only to
\* IntroRecords of that author.
C23_LinkOnlyToOwnAuthor ==
    [][\A k \in Kept :
          intro_data_list'[k].linkedin_link # intro_data_list[k].linkedin_link
              => intro_data_list[k].user_id = r_user]_vars

\* C25: after the resolve phase every IntroRecord of a message with an
\* inline link still carries that link.
C25_InlineLinkKept ==
    AfterResolve =>
        \A k \in DOMAIN intro_data_list :
            inline_link(IntroMessages[k]) # None
                => intro_data_list[k].linkedin_link = inline_link(IntroMessages[k])

\* C24: the link stored in the IntroRecord of a message classified as an
\* intro is what the URL extractor returns on the message's text as fetched.
C24_StoredLinkIsExtracted ==
    (/\ pc = "classify"
     /\ ret # Pending
     /\ ret.fn = "parse_intro_message"
     /\ ret.how = "return"
     /\ ret.val # <<>>)
    => ret.val[1].linkedin_link = extract_linkedin_link(message_text(arg).val)

\* C26: the profile_checked flag of every IntroRecord is false in every phase
\* of main, also after its author's profile was looked up; the LinkedIn line
\* of a record is never marked "(from profile)" and never reads "Not found in
\* message or Slack profile", in the records and in a written report.
C26_ProfileCheckedStaysFalse ==
    /\ \A k \in DOMAIN intro_data_list :
           /\ ~intro_data_list[k].profile_checked
           /\ linkedin_line(intro_data_list[k]) \in {"link", "Not provided"}
    /\ report.written =>
           \A i \in DOMAIN report.entries :
               /\ ~report.entries[i][1].profile_checked
               /\ report.linkedin[i] \in {"link", "Not provided"}

\* Phase 2 is over with a record whose link a profile lookup found and a
\* record whose author's lookup found none
C26_Witness ==
    /\ AfterResolve
    /\ \E c \in DOMAIN resolver_calls, k \in DOMAIN intro_data_list :
           /\ resolver_calls[c].result # None
           /\ intro_data_list[k].linkedin_link = resolver_calls[c].result
           /\ inline_link(IntroMessages[k]) = None
           /\ linkedin_line(intro_data_list[k]) = "link"
    /\ \E c \in DOMAIN resolver_calls, k \in DOMAIN intro_data_list :
           /\ resolver_calls[c].result = None
           /\ intro_data_list[k].user_id = resolver_calls[c].user_id
           /\ linkedin_line(intro_data_list[k]) = "Not provided"

\* C27: when the resolver has returned to the pipeline, with a link or with
\* none, after an error or a timeout, no alarm is armed; none is armed while
\* the pipeline runs its own steps.
C27_NoAlarmLeftArmed == rpc \in {"returned", "idle"} => alarm = 0

\* the resolver is back in Phase 2 after its alarm went off
C27_Witness ==
    /\ pc = "resolve"
    /\ rpc = "returned"
    /\ elapsed >= PROFILE_TIMEOUT
    /\ r_result = Return(None)
    /\ alarm = 0

\* the calls in times that fall into the span of length d that starts with
\* the call at i
InSpan(times, i, d) ==
    {j \in DOMAIN times : times[j] >= times[i] /\ times[j] - times[i] < d}

\* C28: whatever the interleaving of the threads that call wait_if_needed on
\* one limiter, the calls admitted within any window of window_seconds are
\* at most calls_per_minute.
C28_WindowLimitUnderThreads ==
    pc = "limiter" =>
        \A i \in DOMAIN admitted :
            Cardinality(InSpan(admitted, i, window)) <= calls_per_minute

\* C29: with a single caller, the calls recorded in call_times within any
\* one-second interval are at most burst_limit, also after a wait for the
\* per-minute limit.
C29_BurstLimitSingleCaller ==
    (pc = "limiter" /\ Cardinality(DOMAIN threads) = 1) =>
        \A i \in DOMAIN call_times :
            Cardinality(InSpan(call_times, i, Second)) <= burst_limit

\* text holds the literal lit, in any case
Occurs(lit, text) ==
    \E i \in DOMAIN text : match_end(literal(lit), text, i) > 0

BlockedChars == {"<", ">", "\"", "'", ";", "&", "|", BACKTICK, "$"}

\* C30: the output of InputValidator.sanitize_text holds none of the blocked
\* characters and no "javascript:", "data:" or "vbscript:" in any case, also
\* when the removal of one pattern joined the text on both sides of it.
C30_OutputHoldsNoBlockedPattern ==
    (pc = "sanitize" /\ ret # Pending /\ ret.how = "return") =>
        /\ \A i \in DOMAIN ret.val : ret.val[i] \notin BlockedChars
        /\ ~Occurs(JAVASCRIPT, ret.val)
        /\ ~Occurs(DATA, ret.val)
        /\ ~Occurs(VBSCRIPT, ret.val)

====
